---- MODULE Spec2Model ----
(***************************************************************************)
(* The turn-based tool-calling loop of super-minimal-ai-agent.js           *)
(* (class Agent: constructor, init, _registerTool, run, _chat; coerceText; *)
(* class MCPAdapter).                                                      *)
(*                                                                         *)
(* JavaScript strings are modelled as sequences of tokens: a string is the *)
(* concatenation of its tokens, s + t is s \o t and "" is << >>.  The      *)
(* tokens used below are chosen so that no string is the concatenation of  *)
(* two different token sequences: two token sequences are equal exactly    *)
(* when the strings they stand for are equal.                              *)
(***************************************************************************)
EXTENDS Integers, Sequences, FiniteSets, TLC

\* ------------------------------------------------------------------ bounds
MaxTurns == 2        \* opts.maxTurns ranges over 0..MaxTurns
MaxCalls == 2        \* opts.maxToolCallsPerTurn ranges over 0..MaxCalls
MaxAdapters == 4     \* run() is not called again once this._mcpAdapters
                     \* could grow beyond MaxAdapters entries
\* an assistant message carries at most MaxReq tool_calls
MaxReq == MaxCalls + 1

\* ----------------------------------------------------------------- strings
Empty == << >>
Min(a, b) == IF a < b THEN a ELSE b

\* ---------------------------------------------------------------- JS values
\* t: the JavaScript type or shape, s: the string payload, p: array parts.
Str(s)      == [t |-> "string",    s |-> s,     p |-> << >>]
Undefined   == [t |-> "undefined", s |-> Empty, p |-> << >>]
Null        == [t |-> "null",      s |-> Empty, p |-> << >>]
\* a plain object; s is the text JSON.stringify produces for it
Obj(json)   == [t |-> "object",    s |-> json,  p |-> << >>]
\* an object with a "text" property
TextObj(s)  == [t |-> "textobj",   s |-> s,     p |-> << >>]
\* an object that refers to itself
Circular    == [t |-> "circular",  s |-> Empty, p |-> << >>]
\* Object.create(null): no toString, no valueOf
NullProto   == [t |-> "nullproto", s |-> Empty, p |-> << >>]
Arr(parts)  == [t |-> "array",     s |-> Empty, p |-> parts]
\* new Error(msg)
Err(msg)    == [t |-> "Error",     s |-> msg,   p |-> << >>]

\* String(v): the [ok, s] pair is the result, ok = FALSE when it throws a
\* TypeError ("Cannot convert object to primitive value").
String(v) ==
  CASE v.t = "string"    -> [ok |-> TRUE,  s |-> v.s]
    [] v.t = "undefined" -> [ok |-> TRUE,  s |-> <<"undefined">>]
    [] v.t = "null"      -> [ok |-> TRUE,  s |-> <<"null">>]
    [] v.t = "Error"     -> [ok |-> TRUE,  s |-> <<"Error: ">> \o v.s]
    [] v.t = "nullproto" -> [ok |-> FALSE, s |-> Empty]
    [] OTHER             -> [ok |-> TRUE,  s |-> <<"[object Object]">>]

\* JSON.stringify(v): [ok, val]; ok = FALSE when it throws (a cyclic
\* structure); JSON.stringify(undefined) is undefined, not a string.
JSONstringify(v) ==
  CASE v.t = "undefined" -> [ok |-> TRUE,  val |-> Undefined]
    [] v.t = "circular"  -> [ok |-> FALSE, val |-> Undefined]
    [] v.t = "null"      -> [ok |-> TRUE,  val |-> Str(<<"null">>)]
    [] v.t = "string"    -> [ok |-> TRUE,  val |-> Str(<<"\"">> \o v.s \o <<"\"">>)]
    [] v.t = "textobj"   -> [ok |-> TRUE,
                             val |-> Str(<<"{\"text\":\"">> \o v.s \o <<"\"}">>)]
    [] v.t = "nullproto" -> [ok |-> TRUE,  val |-> Str(<<"{}">>)]
    [] OTHER             -> [ok |-> TRUE,  val |-> Str(v.s)]

\* JavaScript truthiness of the values used in conditions
Truthy(v) ==
  CASE v.t = "string"    -> v.s # Empty
    [] v.t = "undefined" -> FALSE
    [] v.t = "null"      -> FALSE
    [] OTHER             -> TRUE

RECURSIVE JoinPartsTextOnly(_)
\* a join that takes the text field of a part and nothing else
JoinPartsTextOnly(parts) ==
  IF parts = << >> THEN Empty
  ELSE LET part == Head(parts)
           piece == IF part.t = "textobj" THEN part.s ELSE Empty
       IN piece \o JoinPartsTextOnly(Tail(parts))

RECURSIVE JoinParts(_)
\* content.map(part => typeof part === "string" ? part : part?.text || "").join("")
JoinParts(parts) ==
  IF parts = << >> THEN Empty
  ELSE LET part == Head(parts)
           piece == IF part.t \in {"string", "textobj"} THEN part.s ELSE Empty
       IN piece \o JoinParts(Tail(parts))

\* coerceText(content): the final text of an assistant message
coerceText(content) ==
  CASE content.t = "string"  -> content.s
    [] content.t = "array"   -> JoinParts(content.p)
    [] content.t = "textobj" -> content.s
    [] content.t \in {"undefined", "null"} -> Empty
    [] OTHER                 -> String(content).s

\* ------------------------------------------------------------ configuration
DefaultMaxTurns == 8             \* opts.maxTurns ?? 8
DefaultMaxToolCallsPerTurn == 4  \* opts.maxToolCallsPerTurn ?? 4

\* tool and server names
echo        == <<"echo">>
constructor == <<"constructor">>
ServerX     == <<"x">>
ServerXY    == <<"x", ":", "y">>
RemoteZ     == <<"z">>
RemoteYZ    == <<"y", ":", "z">>

\* a name of 64 characters, and two names of 65 that start with it
Exact64 == <<"search_the_archive_for_every_document_matching_the_given_query_0">>
LongA   == Exact64 \o <<"a">>
LongB   == Exact64 \o <<"b">>

\* `${cfg.name}:${mt.name}`
CompositeName(server, tool) == server \o <<":">> \o tool

\* the number of characters of a token
TokenLen(tok) ==
  CASE tok = Exact64[1]  -> 64
    [] tok = "echo"        -> 4
    [] tok = "constructor" -> 11
    [] OTHER               -> 1

RECURSIVE slice(_, _)
\* name.slice(0, n), for names whose n-th character ends a token
slice(name, n) ==
  IF name = << >> \/ TokenLen(Head(name)) > n THEN << >>
  ELSE <<Head(name)>> \o slice(Tail(name), n - TokenLen(Head(name)))

\* the cap on a tool name in a tool spec: t.name.slice(0,64)
NameCap == 64

\* _openAIToolsSpec(): one spec per registry entry, in Object.values order;
\* here the name of the spec made from each entry (description and
\* parameters play no part in the loop)
openAIToolsSpec(reg) == [n \in DOMAIN reg |-> slice(reg[n].name, NameCap)]

\* Names every object literal inherits from Object.prototype: the registry
\* is created as {} and read with toolRegistry[toolName].
ObjectPrototypeKeys ==
  { <<"constructor">>, <<"toString">>, <<"valueOf">>, <<"hasOwnProperty">>,
    <<"__proto__">> }

\* What one call of a handler does: it returns a value or throws one.
Return(v) == [k |-> "return", val |-> v]
Throw(v)  == [k |-> "throw",  val |-> v]
\* a call that has not settled yet
Pending   == [k |-> "pending", val |-> Undefined]

\* A handler is the set of outcomes its calls can have.
EchoHandler   == { Return(Obj(<<"{\"echoed\":\"hi\"}">>)), Throw(Err(<<"boom">>)) }
TextHandler   == { Return(Str(<<"ok">>)), Return(Undefined) }
QuietHandler  == { Throw(Err(Empty)) }
CyclicHandler == { Return(Circular), Throw(NullProto) }
Handlers == { EchoHandler, TextHandler, QuietHandler, CyclicHandler }

\* What adapter.callTool can do on the remote side
RemoteOutcomes == { Return(Str(<<"remote">>)), Return(Null), Throw(Err(<<"down">>)) }

\* A CustomTool (name, handler); description and parameters play no part in
\* the loop.
CustomTool(name, handler) == [name |-> name, handler |-> handler]

\* opts.tools
ToolLists ==
  {<< >>}
  \cup { <<CustomTool(echo, h)>> : h \in Handlers }
  \cup { <<CustomTool(echo, EchoHandler), CustomTool(Empty, TextHandler)>> }

\* opts.tools with names at and beyond the cap of a tool spec
LongNameLists ==
  { <<CustomTool(LongA, TextHandler), CustomTool(LongB, QuietHandler)>>,
    <<CustomTool(Exact64, TextHandler), CustomTool(LongA, QuietHandler)>> }

\* opts.mcpServers (only the name of an MCPServerConfig matters here)
ServerLists ==
  { <<ServerX>>, <<ServerX, ServerXY>>, <<ServerXY, ServerXY>> }

\* what listTools() can return: result?.tools || []
Advertised == { << >>, <<RemoteZ>>, <<RemoteYZ>> }

Config(apiKey, model, system, maxTurns, maxCalls, tools, servers) ==
  [apiKey |-> apiKey, model |-> model, system |-> system,
   maxTurns |-> maxTurns, maxToolCallsPerTurn |-> maxCalls,
   customTools |-> tools, mcpServers |-> servers]

\* The constructor options the model explores: agents with static tools
\* only (every number of turns for the echo tool of example.js and for no
\* tool, one turn and every cap for every tool list), agents with remote
\* servers, agents lacking a credential or a model name, and agents whose
\* tools have long names.
Configs ==
  { Config(<<"k">>, <<"m">>, Empty, mt, MaxCalls, tl, << >>) :
      mt \in 0..MaxTurns, tl \in {<< >>, <<CustomTool(echo, EchoHandler)>>} }
  \cup
  { Config(<<"k">>, <<"m">>, Empty, 1, mc, tl, << >>) :
      mc \in 0..MaxCalls, tl \in ToolLists }
  \cup
  { Config(<<"k">>, <<"m">>, <<"sys">>, 1, 1, tl, sl) :
      tl \in {<< >>, <<CustomTool(CompositeName(ServerXY, RemoteZ), TextHandler)>>},
      sl \in ServerLists }
  \cup
  { Config(k, m, Empty, 1, 1, <<CustomTool(echo, EchoHandler)>>, <<ServerX>>) :
      k \in {Empty, <<"k">>}, m \in {Empty, <<"m">>} }
  \cup
  { Config(<<"k">>, <<"m">>, Empty, 1, DefaultMaxToolCallsPerTurn, tl, << >>) :
      tl \in LongNameLists }

\* -------------------------------------------------------------------- state
VARIABLES
  cfg,           \* the constructor options (this.model, this.maxTurns, ...)
  toolRegistry,  \* this.toolRegistry: own properties, name -> tool
  mcpAdapters,   \* this._mcpAdapters: indices into cfg.mcpServers
  pc,            \* where run() stands
  runOpts,       \* runOpts?.returnMessages of the current run
  srv,           \* init(): index of the server being set up
  messages,      \* run(): the transcript
  turn,          \* run(): the turn counter
  toExecute,     \* run(): toolCalls.slice(0, maxToolCallsPerTurn)
  idx,           \* run(): position of the for loop in toExecute
  result,        \* how the last run() ended
  modelCalls,    \* history: _chat calls of the current run
  executed,      \* history: ids of the requests the for loop has taken up
  invoked,       \* history: handler invocations of the current run
  registered,    \* history: _registerTool successes of the current run
  connects,      \* history: adapter.connect() calls of the current run
  active,        \* which Agent the variables above belong to (0: the only one)
  parked         \* a second Agent, its run() suspended at an await: the same
                 \* fields as a record (<< >>: there is no second Agent)

vars == <<cfg, toolRegistry, mcpAdapters, pc, runOpts, srv, messages, turn,
          toExecute, idx, result, modelCalls, executed, invoked,
          registered, connects>>

NoResult == [kind |-> "none", text |-> Empty, hasMessages |-> FALSE,
             messages |-> << >>, error |-> Empty]
\* run() resolved with { text } or { text, messages }
Returned(kind, text, withMessages, msgs) ==
  [kind |-> kind, text |-> text, hasMessages |-> withMessages,
   messages |-> IF withMessages THEN msgs ELSE << >>, error |-> Empty]
\* run() rejected with an error
Failed(error) == [kind |-> "Failed", text |-> Empty, hasMessages |-> FALSE,
                  messages |-> << >>, error |-> error]

Init ==
  /\ cfg \in Configs
  /\ toolRegistry = << >>
  /\ mcpAdapters = << >>
  /\ pc = "idle"
  /\ runOpts = FALSE
  /\ srv = 0
  /\ messages = << >>
  /\ turn = 0
  /\ toExecute = << >>
  /\ idx = 0
  /\ result = NoResult
  /\ modelCalls = 0
  /\ executed = << >>
  /\ invoked = << >>
  /\ registered = << >>
  /\ connects = 0
  /\ active = 0
  /\ parked = << >>

\* ----------------------------------------------------------- the registry
\* A registry entry made from a CustomTool
StaticEntry(tool) ==
  [name |-> tool.name, kind |-> "static", handler |-> tool.handler,
   server |-> 0, adapter |-> 0, remote |-> Empty]
\* The wrapped entry init() makes for the tool mt of server number s: its
\* handler calls adapter.callTool(mt.name, args) on the adapter created for
\* that server in this init(), which becomes this._mcpAdapters[a].
WrappedEntry(s, a, mt) ==
  [name |-> CompositeName(cfg.mcpServers[s], mt), kind |-> "mcp",
   handler |-> RemoteOutcomes, server |-> s, adapter |-> a, remote |-> mt]

\* a registry that keeps the first tool registered under a name
PutKeepFirst(reg, entry) ==
  [n \in DOMAIN reg \cup {entry.name} |->
     IF n \in DOMAIN reg THEN reg[n] ELSE entry]

\* this.toolRegistry[tool.name] = tool
Put(reg, entry) ==
  [n \in DOMAIN reg \cup {entry.name} |->
     IF n = entry.name THEN entry ELSE reg[n]]

\* the history entry of one successful _registerTool
Registration(entry) ==
  [name |-> entry.name, kind |-> entry.kind, server |-> entry.server,
   adapter |-> entry.adapter, remote |-> entry.remote]

RECURSIVE RegisterAllSkipNameless(_, _, _)
\* a registration loop that passes over a tool without a name
RegisterAllSkipNameless(reg, log, entries) ==
  IF entries = << >> THEN [reg |-> reg, ok |-> TRUE, log |-> log]
  ELSE IF Head(entries).name = Empty
       THEN RegisterAllSkipNameless(reg, log, Tail(entries))
       ELSE RegisterAllSkipNameless(
              [n \in DOMAIN reg \cup {Head(entries).name} |->
                 IF n = Head(entries).name THEN Head(entries) ELSE reg[n]],
              Append(log, Registration(Head(entries))), Tail(entries))

RECURSIVE RegisterAll(_, _, _)
\* for (const t of tools) this._registerTool(t): [reg, ok, log]; ok = FALSE
\* when _registerTool threw "Tool must have a name", which ends the loop.
RegisterAll(reg, log, entries) ==
  IF entries = << >> THEN [reg |-> reg, ok |-> TRUE, log |-> log]
  ELSE IF Head(entries).name = Empty
       THEN [reg |-> reg, ok |-> FALSE, log |-> log]
       ELSE RegisterAll(Put(reg, Head(entries)),
                        Append(log, Registration(Head(entries))),
                        Tail(entries))

\* ---------------------------------------------------------------- messages
Message(role, content, id, calls) ==
  [role |-> role, content |-> content, tool_call_id |-> id, tool_calls |-> calls]
SystemMessage(text)    == Message("system", Str(text), 0, << >>)
UserMessage(text)      == Message("user", Str(text), 0, << >>)
ToolMessage(id, content) == Message("tool", content, id, << >>)

UserPrompt == <<"hi">>
\* "[Stopped: maxTurns reached without a final answer]"
Sentinel == <<"[Stopped: maxTurns reached without a final answer]">>
ErrorMarker == <<"__error__: ">>
NotFoundMark == <<" not found.">>

\* ------------------------------------------------- what the model can answer
\* Names and argument strings the model puts in its tool_calls.  Each name
\* is registered for some agents and unknown to the others; constructor is
\* registered for none.
ReqNames == <<echo, constructor, CompositeName(ServerXY, RemoteZ)>>
\* The names a model uses that was given tool specs with the name Exact64,
\* which is what the specs of LongA and of LongB carry.
LongReqNames == <<Exact64, LongA, echo>>
NamesFor(opts) ==
  IF opts.customTools \in LongNameLists THEN LongReqNames ELSE ReqNames
ReqArgs  == <<Str(<<"{\"message\":\"hi\"}">>), Str(<<"{bad">>), Str(Empty)>>
ValidJSON == { <<"{\"message\":\"hi\"}">> }

\* The tool_calls of the model's answer on turn t: n requests whose names
\* run through NamesFor(cfg) from position k on, and whose arguments run through
\* ReqArgs at twice the pace and shifted by the turn, so that every name
\* comes with every argument string; ids are unique within a run.
Requests(t, k, n) ==
  [i \in 1..n |->
     [id        |-> t * (MaxReq + 1) + i,
      name      |-> NamesFor(cfg)[((k + i - 2) % Len(ReqNames)) + 1],
      arguments |-> ReqArgs[((k + 2 * i + t) % Len(ReqArgs)) + 1]]]

\* contents of an assistant message without tool_calls
FinalContents ==
  { Str(<<"Hello!">>), Null, Undefined, TextObj(<<"Hi">>),
    Obj(<<"{\"refusal\":true}">>),
    Arr(<<Str(<<"Good">>), Obj(<<"{\"type\":\"image\"}">>),
          TextObj(<<" day">>)>>) }

AssistantMessages(t) ==
  { Message("assistant", c, 0, << >>) : c \in FinalContents }
  \cup { Message("assistant", Null, 0, Requests(t, k, n)) :
           k \in 1..Len(ReqNames), n \in 1..MaxReq }

\* ------------------------------------------------------------------ actions
\* what Run resets: the locals of a new invocation and the history
FreshRun(rm) ==
  /\ runOpts' = rm
  /\ messages' = << >>
  /\ turn' = 0
  /\ toExecute' = << >>
  /\ idx' = 0
  /\ modelCalls' = 0
  /\ executed' = << >>
  /\ invoked' = << >>
  /\ connects' = 0

\* run(user, runOpts) up to the first await of init(): the two checks, then
\* the registration of the custom tools.
Run(rm) ==
  /\ pc \in {"idle", "done"}
  /\ Len(mcpAdapters) + Len(cfg.mcpServers) <= MaxAdapters
  /\ FreshRun(rm)
  /\ UNCHANGED <<cfg, mcpAdapters>>
  /\ IF cfg.apiKey = Empty
     THEN /\ result' = Failed(<<"Missing apiKey">>)
          /\ pc' = "done"
          /\ UNCHANGED <<toolRegistry, srv>>
          /\ registered' = << >>
     ELSE IF cfg.model = Empty
     THEN /\ result' = Failed(<<"Missing model">>)
          /\ pc' = "done"
          /\ UNCHANGED <<toolRegistry, srv>>
          /\ registered' = << >>
     ELSE LET r == RegisterAll(toolRegistry, << >>,
                               [i \in 1..Len(cfg.customTools) |->
                                  StaticEntry(cfg.customTools[i])])
          IN /\ toolRegistry' = r.reg
             /\ registered' = r.log
             /\ IF ~r.ok
                THEN /\ result' = Failed(<<"Tool must have a name">>)
                     /\ pc' = "done"
                     /\ UNCHANGED srv
                ELSE /\ result' = NoResult
                     /\ IF cfg.mcpServers # << >>
                        THEN pc' = "connect" /\ srv' = 1
                        ELSE pc' = "seed" /\ UNCHANGED srv

\* await adapter.connect() succeeds
ConnectOk ==
  /\ pc = "connect"
  /\ connects' = connects + 1
  /\ pc' = "list"
  /\ UNCHANGED <<cfg, toolRegistry, mcpAdapters, runOpts, srv, messages, turn,
                 toExecute, idx, result, modelCalls, executed, invoked,
                 registered>>

\* await adapter.connect() throws "Failed to load/connect MCP SDK: ..."
ConnectFail ==
  /\ pc = "connect"
  /\ connects' = connects + 1
  /\ result' = Failed(<<"Failed to load/connect MCP SDK: ", "refused">>)
  /\ pc' = "done"
  /\ UNCHANGED <<cfg, toolRegistry, mcpAdapters, runOpts, srv, messages, turn,
                 toExecute, idx, modelCalls, executed, invoked, registered>>

\* await adapter.listTools() returns tools: each is wrapped and registered,
\* the adapter is kept, and init() goes on with the next server.
ListToolsOk(tools) ==
  /\ pc = "list"
  /\ LET r == RegisterAll(toolRegistry, registered,
                          [i \in 1..Len(tools) |->
                             WrappedEntry(srv, Len(mcpAdapters) + 1, tools[i])])
     IN /\ toolRegistry' = r.reg
        /\ registered' = r.log
  /\ mcpAdapters' = Append(mcpAdapters, srv)
  /\ IF srv < Len(cfg.mcpServers)
     THEN pc' = "connect" /\ srv' = srv + 1
     ELSE pc' = "seed" /\ UNCHANGED srv
  /\ UNCHANGED <<cfg, runOpts, messages, turn, toExecute, idx, result,
                 modelCalls, executed, invoked, connects>>

\* await adapter.listTools() throws
ListToolsFail ==
  /\ pc = "list"
  /\ result' = Failed(<<"listTools failed">>)
  /\ pc' = "done"
  /\ UNCHANGED <<cfg, toolRegistry, mcpAdapters, runOpts, srv, messages, turn,
                 toExecute, idx, modelCalls, executed, invoked, registered,
                 connects>>

\* a seeding that puts the user message before the system message
SeedUserFirst ==
  /\ pc = "seed"
  /\ messages' = <<UserMessage(UserPrompt)>> \o
                  (IF cfg.system # Empty THEN <<SystemMessage(cfg.system)>>
                   ELSE << >>)
  /\ turn' = 0
  /\ pc' = "loop"
  /\ UNCHANGED <<cfg, toolRegistry, mcpAdapters, runOpts, srv, toExecute, idx,
                 result, modelCalls, executed, invoked, registered,
                 connects>>

\* const messages = []; the system message if any, then the user message
Seed ==
  /\ pc = "seed"
  /\ messages' = (IF cfg.system # Empty THEN <<SystemMessage(cfg.system)>>
                  ELSE << >>) \o <<UserMessage(UserPrompt)>>
  /\ turn' = 0
  /\ pc' = "loop"
  /\ UNCHANGED <<cfg, toolRegistry, mcpAdapters, runOpts, srv, toExecute, idx,
                 result, modelCalls, executed, invoked, registered,
                 connects>>

\* a loop that allows one turn too many
LoopConditionOffByOne == turn <= cfg.maxTurns

\* while (turn < this.maxTurns)
LoopCondition == turn < cfg.maxTurns

\* what run() returns after the loop
GuardrailResult == Returned("GuardrailStopped", Sentinel, FALSE, << >>)

\* a return that loses the text
FinalResultNoText(text, msgs) == Returned("Completed", Empty, runOpts, msgs)

\* what run() returns for a final assistant message
FinalResult(text, msgs) == Returned("Completed", text, runOpts, msgs)

\* The head of the while loop: either the next turn starts with the call of
\* _chat, or the loop ends and run() returns the guardrail text.
LoopHead ==
  /\ pc = "loop"
  /\ IF LoopCondition
     THEN /\ turn' = turn + 1
          /\ modelCalls' = modelCalls + 1
          /\ pc' = "chat"
          /\ UNCHANGED result
     ELSE /\ result' = GuardrailResult
          /\ pc' = "done"
          /\ UNCHANGED <<turn, modelCalls>>
  /\ UNCHANGED <<cfg, toolRegistry, mcpAdapters, runOpts, srv, messages,
                 toExecute, idx, executed, invoked, registered, connects>>

\* _chat throws: fetch failed or the response was not ok
ChatError ==
  /\ pc = "chat"
  /\ result' = Failed(<<"OpenAI API error ", "500", ": ", "oops">>)
  /\ pc' = "done"
  /\ UNCHANGED <<cfg, toolRegistry, mcpAdapters, runOpts, srv, messages, turn,
                 toExecute, idx, modelCalls, executed, invoked, registered,
                 connects>>

\* a loop that goes on to the next turn when no message came back
ChatNoMessageContinues ==
  /\ pc = "chat"
  /\ pc' = "loop"
  /\ UNCHANGED <<cfg, toolRegistry, mcpAdapters, runOpts, srv, messages, turn,
                 toExecute, idx, result, modelCalls, executed, invoked,
                 registered, connects>>

\* res?.choices?.[0]?.message is missing
ChatNoMessage ==
  /\ pc = "chat"
  /\ result' = Failed(<<"No message from model">>)
  /\ pc' = "done"
  /\ UNCHANGED <<cfg, toolRegistry, mcpAdapters, runOpts, srv, messages, turn,
                 toExecute, idx, modelCalls, executed, invoked, registered,
                 connects>>

\* toolCalls.slice(0, this.maxToolCallsPerTurn), for a cap >= 0
Slice(toolCalls, cap) == SubSeq(toolCalls, 1, Min(cap, Len(toolCalls)))

\* The model answered msg: it is pushed; with tool_calls the for loop over
\* toExecute starts, without them run() returns the coerced content.
ChatMessage(msg) ==
  /\ pc = "chat"
  /\ messages' = Append(messages, msg)
  /\ IF Len(msg.tool_calls) > 0
     THEN /\ toExecute' = Slice(msg.tool_calls, cfg.maxToolCallsPerTurn)
          /\ IF toExecute' # << >>
             THEN pc' = "calls" /\ idx' = 1
             ELSE pc' = "loop" /\ idx' = 0
          /\ UNCHANGED result
     ELSE /\ result' = FinalResult(coerceText(msg.content), messages')
          /\ pc' = "done"
          /\ UNCHANGED <<toExecute, idx>>
  /\ UNCHANGED <<cfg, toolRegistry, mcpAdapters, runOpts, srv, turn,
                 modelCalls, executed, invoked, registered, connects>>

\* ------------------------------------------------- one tool_call of a turn
\* tc.function?.arguments ? JSON.parse(tc.function.arguments) : {}, with
\* { _raw: arguments } when JSON.parse throws
ParseArgs(a) ==
  IF ~Truthy(a) THEN Obj(<<"{}">>)
  ELSE IF a.s \in ValidJSON THEN Obj(a.s)
  ELSE Obj(<<"{\"_raw\":\"">> \o a.s \o <<"\"}">>)

\* this.toolRegistry[toolName] on an object created as {}: an own property,
\* else a member inherited from Object.prototype, else undefined
Resolve(reg, name) ==
  IF name \in DOMAIN reg THEN "own"
  ELSE IF name \in ObjectPrototypeKeys THEN "inherited"
  ELSE "undefined"

\* the request the for loop is at
tc == toExecute[idx]

\* a for loop that passes over every second request
AdvanceSkipsOne ==
  IF idx + 1 < Len(toExecute)
  THEN pc' = "calls" /\ idx' = idx + 2 /\ UNCHANGED toExecute
  ELSE pc' = "loop" /\ idx' = 0 /\ toExecute' = << >>

\* the end of one pass of the for loop: the next request, or `continue`
Advance ==
  IF idx < Len(toExecute)
  THEN pc' = "calls" /\ idx' = idx + 1 /\ UNCHANGED toExecute
  ELSE pc' = "loop" /\ idx' = 0 /\ toExecute' = << >>

\* `Tool ${toolName} not found.`
NotFoundContent(name) == Str(<<"Tool ">> \o name \o NotFoundMark)

\* e instanceof Error ? e.message : String(e); [ok, s], ok = FALSE when
\* String(e) throws inside the catch block
CaughtError(e) ==
  IF e.t = "Error" THEN [ok |-> TRUE, s |-> e.s] ELSE String(e)

\* error ? `__error__: ${error}`
\*       : (typeof result === "string" ? result : JSON.stringify(result))
\* error is Null when nothing was caught; [ok, val], ok = FALSE when
\* JSON.stringify throws
ToolContent(error, res) ==
  IF Truthy(error) THEN [ok |-> TRUE, val |-> Str(ErrorMarker \o error.s)]
  ELSE IF res.t = "string" THEN [ok |-> TRUE, val |-> res]
  ELSE JSONstringify(res)

\* the registry has no own entry and no inherited member of that name
ToolNotFound ==
  /\ pc = "calls"
  /\ Resolve(toolRegistry, tc.name) = "undefined"
  /\ executed' = Append(executed, tc.id)
  /\ messages' = Append(messages, ToolMessage(tc.id, NotFoundContent(tc.name)))
  /\ Advance
  /\ UNCHANGED <<cfg, toolRegistry, mcpAdapters, runOpts, srv, turn, result,
                 modelCalls, invoked, registered, connects>>

\* The name is a member of Object.prototype: `tool` is truthy, tool.handler
\* is undefined, calling it throws a TypeError inside the try block.
InheritedMember ==
  /\ pc = "calls"
  /\ Resolve(toolRegistry, tc.name) = "inherited"
  /\ executed' = Append(executed, tc.id)
  /\ messages' = Append(messages,
       ToolMessage(tc.id,
         ToolContent(Str(<<"tool.handler is not a function">>), Undefined).val))
  /\ Advance
  /\ UNCHANGED <<cfg, toolRegistry, mcpAdapters, runOpts, srv, turn, result,
                 modelCalls, invoked, registered, connects>>

\* tool.handler(args, ctx) is called and awaited
InvokeHandler ==
  /\ pc = "calls"
  /\ Resolve(toolRegistry, tc.name) = "own"
  /\ executed' = Append(executed, tc.id)
  /\ LET tool == toolRegistry[tc.name]
     IN invoked' = Append(invoked,
          [id |-> tc.id, name |-> tc.name, kind |-> tool.kind,
           server |-> tool.server, adapter |-> tool.adapter,
           remote |-> tool.remote, args |-> ParseArgs(tc.arguments),
           outcome |-> Pending])
  /\ pc' = "handler"
  /\ UNCHANGED <<cfg, toolRegistry, mcpAdapters, runOpts, srv, messages, turn,
                 toExecute, idx, result, modelCalls, registered, connects>>

\* the history notes how the pending invocation settled
Settled(o) == [invoked EXCEPT ![Len(invoked)].outcome = o]

\* what the awaited call yields for a returned value: a wrapped MCP tool
\* goes through callTool, which turns a falsy result into null
HandlerResult(tool, v) ==
  IF tool.kind = "mcp" /\ ~Truthy(v) THEN Null ELSE v

\* the rest of a pass once the handler has settled: the tool message is
\* pushed, or the exception leaves run()
Settle(error, res) ==
  LET c == ToolContent(error, res)
  IN IF c.ok
     THEN /\ messages' = Append(messages, ToolMessage(tc.id, c.val))
          /\ Advance
          /\ UNCHANGED result
     ELSE /\ result' = Failed(<<"Converting circular structure to JSON">>)
          /\ pc' = "done"
          /\ UNCHANGED <<messages, toExecute, idx>>

\* the handler returned o.val
HandlerReturns(o) ==
  /\ pc = "handler"
  /\ o \in toolRegistry[tc.name].handler
  /\ o.k = "return"
  /\ Settle(Null, HandlerResult(toolRegistry[tc.name], o.val))
  /\ invoked' = Settled(o)
  /\ UNCHANGED <<cfg, toolRegistry, mcpAdapters, runOpts, srv, turn,
                 modelCalls, executed, registered, connects>>

\* the handler threw o.val
HandlerThrows(o) ==
  /\ pc = "handler"
  /\ o \in toolRegistry[tc.name].handler
  /\ o.k = "throw"
  /\ LET e == CaughtError(o.val)
     IN IF e.ok
        THEN Settle(Str(e.s), Undefined)
        ELSE /\ result' = Failed(<<"Cannot convert object to primitive value">>)
             /\ pc' = "done"
             /\ UNCHANGED <<messages, toExecute, idx>>
  /\ invoked' = Settled(o)
  /\ UNCHANGED <<cfg, toolRegistry, mcpAdapters, runOpts, srv, turn,
                 modelCalls, executed, registered, connects>>

\* ------------------------------------------------------------ specification
Outcomes == UNION Handlers \cup RemoteOutcomes

\* No statement of Agent reads or writes anything but its own fields
\* (this.*) and the locals of its own run(): a step of one Agent leaves
\* every other Agent as it is.
Undisturbed == UNCHANGED <<active, parked>>

\* one step of the Agent the variables belong to
Next ==
  \/ (\E rm \in BOOLEAN : Run(rm)) /\ Undisturbed
  \/ ConnectOk /\ Undisturbed
  \/ ConnectFail /\ Undisturbed
  \/ (\E tools \in Advertised : ListToolsOk(tools)) /\ Undisturbed
  \/ ListToolsFail /\ Undisturbed
  \/ Seed /\ Undisturbed
  \/ LoopHead /\ Undisturbed
  \/ ChatError /\ Undisturbed
  \/ ChatNoMessage /\ Undisturbed
  \/ (\E msg \in AssistantMessages(turn) : ChatMessage(msg)) /\ Undisturbed
  \/ ToolNotFound /\ Undisturbed
  \/ InheritedMember /\ Undisturbed
  \/ InvokeHandler /\ Undisturbed
  \/ (\E o \in Outcomes : HandlerReturns(o)) /\ Undisturbed
  \/ (\E o \in Outcomes : HandlerThrows(o)) /\ Undisturbed

Spec == Init /\ [][Next]_vars

\* ------------------------------------------------ two Agents in one process
\* The fields (this.*) and the run() locals of the Agent the variables
\* belong to.
Frame ==
  [cfg |-> cfg, toolRegistry |-> toolRegistry, mcpAdapters |-> mcpAdapters,
   pc |-> pc, runOpts |-> runOpts, srv |-> srv, messages |-> messages,
   turn |-> turn, toExecute |-> toExecute, idx |-> idx, result |-> result,
   modelCalls |-> modelCalls, executed |-> executed, invoked |-> invoked,
   registered |-> registered, connects |-> connects]

\* new Agent(opts): the state the constructor leaves
Constructed(opts) ==
  [cfg |-> opts, toolRegistry |-> << >>, mcpAdapters |-> << >>,
   pc |-> "idle", runOpts |-> FALSE, srv |-> 0, messages |-> << >>,
   turn |-> 0, toExecute |-> << >>, idx |-> 0, result |-> NoResult,
   modelCalls |-> 0, executed |-> << >>, invoked |-> << >>,
   registered |-> << >>, connects |-> 0]

\* Where run() can be suspended: at one of its awaits (init() at line 110,
\* connect, listTools, _chat, tool.handler), or not running at all.  The
\* statements between two awaits run without interruption.
AwaitPoints == {"idle", "done", "connect", "list", "seed", "chat", "handler"}

\* two Agents that share one registry object
ResumeSharedRegistry(f) ==
  /\ cfg' = f.cfg
  /\ UNCHANGED toolRegistry
  /\ mcpAdapters' = f.mcpAdapters
  /\ pc' = f.pc
  /\ runOpts' = f.runOpts
  /\ srv' = f.srv
  /\ messages' = f.messages
  /\ turn' = f.turn
  /\ toExecute' = f.toExecute
  /\ idx' = f.idx
  /\ result' = f.result
  /\ modelCalls' = f.modelCalls
  /\ executed' = f.executed
  /\ invoked' = f.invoked
  /\ registered' = f.registered
  /\ connects' = f.connects

\* The Agent whose frame is f goes on: every field is its own, created by
\* its own constructor ({} at line 53, [] at lines 57 and 112).
Resume(f) ==
  /\ cfg' = f.cfg
  /\ toolRegistry' = f.toolRegistry
  /\ mcpAdapters' = f.mcpAdapters
  /\ pc' = f.pc
  /\ runOpts' = f.runOpts
  /\ srv' = f.srv
  /\ messages' = f.messages
  /\ turn' = f.turn
  /\ toExecute' = f.toExecute
  /\ idx' = f.idx
  /\ result' = f.result
  /\ modelCalls' = f.modelCalls
  /\ executed' = f.executed
  /\ invoked' = f.invoked
  /\ registered' = f.registered
  /\ connects' = f.connects

\* The event loop turns from one Agent, suspended at an await, to the other.
Switch ==
  /\ parked # << >>
  /\ pc \in AwaitPoints
  /\ active' = 3 - active
  /\ parked' = Frame
  /\ Resume(parked)

\* Agent 1 has a static tool and one remote server and has served
\* MaxAdapters - 1 runs, in each of which the server advertised no tool and
\* the model call failed; agent 2 has a static tool only and was just
\* constructed.
AgentOne ==
  Config(<<"k">>, <<"m">>, Empty, 1, 1, <<CustomTool(echo, EchoHandler)>>,
         <<ServerX>>)
AgentTwo ==
  Config(<<"k">>, <<"m">>, <<"sys">>, 1, 1, <<CustomTool(echo, TextHandler)>>,
         << >>)
AfterEarlierRuns ==
  [cfg |-> AgentOne,
   toolRegistry |-> Put(<< >>, StaticEntry(AgentOne.customTools[1])),
   mcpAdapters |-> [i \in 1..(MaxAdapters - 1) |-> 1],
   pc |-> "done", runOpts |-> FALSE, srv |-> 1,
   messages |-> <<UserMessage(UserPrompt)>>,
   turn |-> 1, toExecute |-> << >>, idx |-> 0,
   result |-> Failed(<<"OpenAI API error ", "500", ": ", "oops">>),
   modelCalls |-> 1, executed |-> << >>, invoked |-> << >>,
   registered |-> <<Registration(StaticEntry(AgentOne.customTools[1]))>>,
   connects |-> 1]

PairInit ==
  /\ active = 1
  /\ parked = Constructed(AgentTwo)
  /\ cfg = AfterEarlierRuns.cfg
  /\ toolRegistry = AfterEarlierRuns.toolRegistry
  /\ mcpAdapters = AfterEarlierRuns.mcpAdapters
  /\ pc = AfterEarlierRuns.pc
  /\ runOpts = AfterEarlierRuns.runOpts
  /\ srv = AfterEarlierRuns.srv
  /\ messages = AfterEarlierRuns.messages
  /\ turn = AfterEarlierRuns.turn
  /\ toExecute = AfterEarlierRuns.toExecute
  /\ idx = AfterEarlierRuns.idx
  /\ result = AfterEarlierRuns.result
  /\ modelCalls = AfterEarlierRuns.modelCalls
  /\ executed = AfterEarlierRuns.executed
  /\ invoked = AfterEarlierRuns.invoked
  /\ registered = AfterEarlierRuns.registered
  /\ connects = AfterEarlierRuns.connects

pairVars == <<vars, active, parked>>

PairNext ==
  \/ Next
  \/ Switch

PairSpec == PairInit /\ [][PairNext]_pairVars

\* ===================================================================== claims
Running == pc \notin {"idle", "done"}
Range(q) == { q[i] : i \in DOMAIN q }
AssistantAt == { i \in DOMAIN messages : messages[i].role = "assistant" }
ToolAt      == { i \in DOMAIN messages : messages[i].role = "tool" }
\* positions of the assistant messages that carry tool_calls
ToolTurnsAt == { i \in AssistantAt : messages[i].tool_calls # << >> }
\* positions of the assistant messages without tool_calls
FinalAt     == { i \in AssistantAt : messages[i].tool_calls = << >> }
\* tool messages that answer request id
AnswersTo(id) == { i \in ToolAt : messages[i].tool_call_id = id }
\* s contains the token sequence m
Contains(s, m) ==
  \E k \in 1..(Len(s) - Len(m) + 1) : SubSeq(s, k, k + Len(m) - 1) = m
HasPrefix(s, m) == Len(s) >= Len(m) /\ SubSeq(s, 1, Len(m)) = m

\* -------------------------------------------------------------------- C1
\* The number of steps run() can still take: every step of a run lowers it.
StepsPerTurn == 2 * MaxReq + 2
LoopMeasure ==
  CASE pc = "loop"    -> 1
    [] pc = "chat"    -> StepsPerTurn
    [] pc = "calls"   -> 2 * (Len(toExecute) - idx + 1) + 1
    [] pc = "handler" -> 2 * (Len(toExecute) - idx + 1)
    [] OTHER          -> 0
RunMeasure ==
  CASE pc \in {"loop", "chat", "calls", "handler"} ->
         (cfg.maxTurns - turn) * StepsPerTurn + LoopMeasure
    [] pc = "seed"    -> cfg.maxTurns * StepsPerTurn + 2
    [] pc = "list"    -> cfg.maxTurns * StepsPerTurn + 2
                           + 2 * (Len(cfg.mcpServers) - srv) + 1
    [] pc = "connect" -> cfg.maxTurns * StepsPerTurn + 2
                           + 2 * (Len(cfg.mcpServers) - srv) + 2
    [] OTHER          -> 0

\* C1: every run() ends, as Completed, GuardrailStopped or Failed, after at
\* most maxTurns model calls: a run makes at most maxTurns calls of _chat
\* (none when maxTurns = 0), a run that has not ended can always take a
\* step once the pending model call or tool invocation settles, every step
\* of a run lowers a natural-number measure, and a run that has ended has
\* one of the three outcomes (the sentinel text when GuardrailStopped, an
\* error when Failed).
C1_RunTerminates ==
  /\ [](modelCalls <= cfg.maxTurns)
  /\ [](RunMeasure >= 0 /\ (Running => ENABLED Next))
  /\ [](pc = "done" =>
          /\ result.kind \in {"Completed", "GuardrailStopped", "Failed"}
          /\ result.kind = "GuardrailStopped" => result.text = Sentinel
          /\ result.kind = "Failed" => result.error # Empty)
  /\ [][Running => RunMeasure' < RunMeasure]_vars

\* a run that used all its turns, with tools invoked, and stopped at the
\* guardrail
C1_Witness ==
  /\ pc = "done"
  /\ result.kind = "GuardrailStopped"
  /\ cfg.maxTurns = MaxTurns
  /\ modelCalls = cfg.maxTurns
  /\ invoked # << >>

\* -------------------------------------------------------------------- C2
Seeded == messages # << >>
\* the requests of tool_calls that the cap lets through
Taken(calls) == SubSeq(calls, 1, Min(cfg.maxToolCallsPerTurn, Len(calls)))

\* C2: when the model answered with tool_calls on each of maxTurns turns,
\* the run has not failed: it made exactly maxTurns model calls, every
\* request taken in every turn has its tool message, and the text returned
\* is the guardrail sentinel.
C2_ToolCallsEveryTurn ==
  (pc = "done" /\ Seeded /\ Cardinality(ToolTurnsAt) = cfg.maxTurns) =>
    /\ result.kind = "GuardrailStopped"
    /\ result.text = Sentinel
    /\ modelCalls = cfg.maxTurns
    /\ \A i \in ToolTurnsAt :
         \A r \in Range(Taken(messages[i].tool_calls)) : AnswersTo(r.id) # {}

\* -------------------------------------------------------------------- C3
\* C3: a transcript holds an assistant message without tool_calls only as
\* its last message and only in a run that has ended as Completed with the
\* coerced content of that message as its text, every model call of the run
\* being one of the assistant messages; when it is the first assistant
\* message the run took one turn, one model call and no tool.
C3_FirstFinalMessageCompletes ==
  \A i \in FinalAt :
    /\ i = Len(messages)
    /\ pc = "done"
    /\ result.kind = "Completed"
    /\ result.text = coerceText(messages[i].content)
    /\ (messages[i].content = Str(<<"Hello!">>) => result.text = <<"Hello!">>)
    /\ modelCalls = Cardinality(AssistantAt)
    /\ Cardinality(ToolAt) = Len(executed)
    /\ (Cardinality(AssistantAt) = 1 =>
          turn = 1 /\ modelCalls = 1 /\ executed = << >> /\ invoked = << >>)

\* the model's first message is "Hello!" without tool_calls
C3_Witness ==
  /\ pc = "done"
  /\ result.kind = "Completed"
  /\ result.text = <<"Hello!">>
  /\ turn = 1
  /\ Cardinality(AssistantAt) = 1

\* -------------------------------------------------------------------- C4
\* the ids of the requests of tool_calls the for loop took up, in the order
\* it took them
ExecutedOf(calls) ==
  SelectSeq(executed, LAMBDA id : id \in { calls[k].id : k \in DOMAIN calls })
Ids(calls) == [k \in DOMAIN calls |-> calls[k].id]

\* C4: once a turn is over, of an assistant message with more tool_calls
\* than maxToolCallsPerTurn exactly the first maxToolCallsPerTurn requests
\* have been executed, in request order, and no other one ever is.
C4_ExactlyCapExecuted ==
  pc \in {"loop", "chat", "done"} =>
    \A i \in ToolTurnsAt :
      Len(messages[i].tool_calls) > cfg.maxToolCallsPerTurn =>
        ExecutedOf(messages[i].tool_calls) = Ids(Taken(messages[i].tool_calls))

\* What the cap alone guarantees: the requests executed of any assistant
\* message are, in order, among its first maxToolCallsPerTurn ones.
CapNeverExceeded ==
  \A i \in ToolTurnsAt :
    LET done == ExecutedOf(messages[i].tool_calls)
        first == Ids(Taken(messages[i].tool_calls))
    IN Len(done) <= Len(first) /\ done = SubSeq(first, 1, Len(done))

\* -------------------------------------------------------------------- C5
\* every request of the transcript
AllRequests == UNION { Range(messages[i].tool_calls) : i \in ToolTurnsAt }

\* C5: an executed request whose name is not registered gets exactly one
\* tool message, with the request's id and a content that contains
\* " not found.", and no handler is invoked for it.
C5_UnregisteredNameNotFound ==
  \A r \in AllRequests :
    (r.id \in Range(executed) /\ r.name \notin DOMAIN toolRegistry) =>
      /\ Cardinality(AnswersTo(r.id)) = 1
      /\ \A i \in AnswersTo(r.id) :
           /\ messages[i].content.t = "string"
           /\ Contains(messages[i].content.s, NotFoundMark)
      /\ \A j \in DOMAIN invoked : invoked[j].id # r.id

\* -------------------------------------------------------------------- C6
\* contents of the tool messages of the invocations that returned
SuccessContents ==
  { messages[i].content :
      i \in UNION { AnswersTo(invoked[j].id) :
                      j \in { k \in DOMAIN invoked :
                                invoked[k].outcome.k = "return" } } }

\* C6: an invocation whose handler threw has exactly one tool message, with
\* the request's id, whose content is a string starting with "__error__: "
\* and is the content of no successful invocation of the run; the run is
\* not failed by it.
C6_HandlerFailureMarked ==
  \A j \in DOMAIN invoked :
    invoked[j].outcome.k = "throw" =>
      /\ Cardinality(AnswersTo(invoked[j].id)) = 1
      /\ \A i \in AnswersTo(invoked[j].id) :
           /\ messages[i].content.t = "string"
           /\ HasPrefix(messages[i].content.s, ErrorMarker)
           /\ messages[i].content \notin SuccessContents
      /\ ~(pc = "done" /\ result.kind = "Failed" /\ j = Len(invoked))

\* -------------------------------------------------------------------- C7
\* the errors of a model call: _chat threw, or no message came back
ModelCallErrors ==
  { <<"OpenAI API error ", "500", ": ", "oops">>, <<"No message from model">> }

\* C7: a run whose initialization succeeded fails only with the error of a
\* model call, and every request the loop has finished with has its tool
\* message.
C7_OnlyModelCallFailures ==
  /\ (pc = "done" /\ result.kind = "Failed" /\ Seeded) =>
        result.error \in ModelCallErrors
  /\ (pc \in {"loop", "chat", "done"}) =>
        \A id \in Range(executed) : AnswersTo(id) # {}

\* -------------------------------------------------------------------- C8
\* C8: a run that returns, Completed or GuardrailStopped, returns
\* { text, messages } with the whole transcript when returnMessages was
\* set, and { text } alone when it was not.
C8_ReturnMessages ==
  (pc = "done" /\ result.kind \in {"Completed", "GuardrailStopped"}) =>
    /\ result.hasMessages = runOpts
    /\ runOpts => result.messages = messages

\* -------------------------------------------------------------------- C9
\* registrations of this run under name n
RegisteredAs(n) == { k \in DOMAIN registered : registered[k].name = n }
Last(S) == CHOOSE k \in S : \A m \in S : m <= k
\* invocation inv went where registration reg points
DispatchedTo(inv, reg) ==
  /\ inv.kind = reg.kind
  /\ inv.adapter = reg.adapter
  /\ inv.server = reg.server
  /\ inv.remote = reg.remote
\* every remote tool is registered as `server:tool`
CompositeNames ==
  \A k \in DOMAIN registered :
    registered[k].kind = "mcp" =>
      registered[k].name =
        cfg.mcpServers[registered[k].server] \o <<":">> \o registered[k].remote

\* C9 as claimed: a request for a composite name goes to callTool(tool) on
\* the gateway of every server that advertised a tool registered under
\* that name in this run, whatever else yields the same name.
C9_DispatchToAdvertisingServer ==
  /\ CompositeNames
  /\ \A j \in DOMAIN invoked :
       \A k \in RegisteredAs(invoked[j].name) :
         registered[k].kind = "mcp" => DispatchedTo(invoked[j], registered[k])

\* C9 as amended: a request for a name registered in this run goes where
\* the last registration under that name points; remote tools are
\* registered after the static ones, so a name a server yields never
\* reaches a static tool.
C9_DispatchToLastRegistration ==
  /\ CompositeNames
  /\ \A j \in DOMAIN invoked :
       LET ks == RegisteredAs(invoked[j].name)
       IN ks # {} =>
            /\ DispatchedTo(invoked[j], registered[Last(ks)])
            /\ (\E k \in ks : registered[k].kind = "mcp") =>
                 invoked[j].kind = "mcp"

\* a composite name registered by a static tool and by two servers is
\* requested, and the remote call returns
C9_Witness ==
  \E j \in DOMAIN invoked :
    /\ invoked[j].outcome.k = "return"
    /\ invoked[j].kind = "mcp"
    /\ Cardinality(RegisteredAs(invoked[j].name)) = 3
    /\ \E k \in RegisteredAs(invoked[j].name) : registered[k].kind = "static"

\* ------------------------------------------------------------------- C10
ConfigErrors == { <<"Missing apiKey">>, <<"Missing model">> }
DiscoveryErrors ==
  { <<"Failed to load/connect MCP SDK: ", "refused">>, <<"listTools failed">>,
    <<"Tool must have a name">> }

\* C10: without a model or a credential run() fails at once: nothing is
\* registered and no gateway is connected; a failure of connect, of
\* listTools or of _registerTool fails the run with that error before any
\* model call or tool invocation; and the loop only ever starts after every
\* configured server was connected and listed and every custom tool was
\* registered.
C10_InitFailFast ==
  /\ (cfg.apiKey = Empty \/ cfg.model = Empty) =>
       /\ registered = << >> /\ toolRegistry = << >>
       /\ connects = 0 /\ mcpAdapters = << >>
       /\ modelCalls = 0 /\ executed = << >> /\ ~Seeded
       /\ pc = "done" =>
            result = Failed(IF cfg.apiKey = Empty THEN <<"Missing apiKey">>
                            ELSE <<"Missing model">>)
  /\ (pc = "done" /\ result.kind = "Failed"
        /\ result.error \in ConfigErrors \cup DiscoveryErrors) =>
       modelCalls = 0 /\ executed = << >> /\ invoked = << >> /\ ~Seeded
  /\ (Seeded \/ modelCalls > 0 \/ executed # << >>) =>
       /\ connects = Len(cfg.mcpServers)
       /\ Len(mcpAdapters) >= Len(cfg.mcpServers)
       /\ \A i \in DOMAIN cfg.customTools :
            /\ cfg.customTools[i].name # Empty
            /\ cfg.customTools[i].name \in DOMAIN toolRegistry

\* listTools fails on the second server after the first one was discovered
C10_Witness ==
  /\ pc = "done"
  /\ result = Failed(<<"listTools failed">>)
  /\ srv = 2
  /\ \E k \in DOMAIN registered : registered[k].kind = "mcp"

\* ------------------------------------------------------------------- C11
\* JSON.parse(text): [ok, val]; ok = FALSE when it throws a SyntaxError.
\* The texts are those JSONstringify produces; anything else is not JSON.
JSONparse(text) ==
  IF text = <<"null">> THEN [ok |-> TRUE, val |-> Null]
  ELSE IF text = <<"{}">> THEN [ok |-> TRUE, val |-> Obj(<<"{}">>)]
  ELSE IF Len(text) >= 2 /\ text[1] = "\"" /\ text[Len(text)] = "\""
  THEN [ok |-> TRUE, val |-> Str(SubSeq(text, 2, Len(text) - 1))]
  ELSE IF Len(text) >= 2 /\ text[1] = "{\"text\":\"" /\ text[Len(text)] = "\"}"
  THEN [ok |-> TRUE, val |-> TextObj(SubSeq(text, 2, Len(text) - 1))]
  ELSE IF text \in { o.val.s : o \in { x \in UNION Handlers \cup RemoteOutcomes :
                                         x.val.t = "object" } }
  THEN [ok |-> TRUE, val |-> Obj(text)]
  ELSE [ok |-> FALSE, val |-> Undefined]

\* the value the awaited handler call of invocation inv yielded
ResultOf(inv) == HandlerResult([kind |-> inv.kind], inv.outcome.val)

\* C11: every invocation whose handler returned has one tool message; its
\* content is the result itself when the result is a string, and otherwise
\* a string that JSON.parse turns back into the result.
C11_ResultRoundTrip ==
  \A j \in DOMAIN invoked :
    invoked[j].outcome.k = "return" =>
      /\ Cardinality(AnswersTo(invoked[j].id)) = 1
      /\ \A i \in AnswersTo(invoked[j].id) :
           LET content == messages[i].content
               res == ResultOf(invoked[j])
           IN IF res.t = "string" THEN content = res
              ELSE /\ content.t = "string"
                   /\ JSONparse(content.s) = [ok |-> TRUE, val |-> res]

\* What does hold: a string result is the content as it is, and a plain
\* object or null is carried as text that parses back to it.
RoundTripOfSerializable ==
  \A j \in DOMAIN invoked :
    (invoked[j].outcome.k = "return"
       /\ ResultOf(invoked[j]).t \in {"string", "object", "null"}) =>
      /\ Cardinality(AnswersTo(invoked[j].id)) = 1
      /\ \A i \in AnswersTo(invoked[j].id) :
           LET content == messages[i].content
               res == ResultOf(invoked[j])
           IN IF res.t = "string" THEN content = res
              ELSE /\ content.t = "string"
                   /\ JSONparse(content.s) = [ok |-> TRUE, val |-> res]

\* ------------------------------------------------------------------- C12
\* the state of agent a: running, or suspended at an await
View(a) == IF active = a THEN Frame ELSE parked

\* the state agent 1 starts from is one an Agent reaches on its own
EarlierRunsReached == Frame = AfterEarlierRuns /\ parked = << >>

C13_RegistryOfThisRun ==
  Seeded =>
    /\ DOMAIN toolRegistry = { registered[k].name : k \in DOMAIN registered }
    /\ \A n \in DOMAIN toolRegistry :
         Registration(toolRegistry[n]) = registered[Last(RegisteredAs(n))]

\* What does hold: every tool registered in this run is in the registry
\* as it was last registered, whatever else earlier runs left there.
RegistryHoldsThisRun ==
  \A k \in DOMAIN registered :
    /\ registered[k].name \in DOMAIN toolRegistry
    /\ Registration(toolRegistry[registered[k].name])
         = registered[Last(RegisteredAs(registered[k].name))]

\* ------------------------------------------------------------------- C14
IsPrefix(s, t) == Len(s) <= Len(t) /\ SubSeq(t, 1, Len(s)) = s
\* the positions of the seed: 1, or 1 and 2 with a system prompt
SeedLen == IF cfg.system # Empty THEN 2 ELSE 1

\* C14: once seeded, the transcript starts with the system message (only
\* when the system prompt is not empty) and the user message, and holds no
\* other system or user message; and every step of a run leaves the
\* transcript as it was or appends to it, so the transcript sent with a
\* model call extends the one sent with the call before.
C14_AppendOnlySeeded ==
  /\ [](Seeded =>
          /\ Len(messages) >= SeedLen
          /\ messages[SeedLen] = UserMessage(UserPrompt)
          /\ cfg.system # Empty => messages[1] = SystemMessage(cfg.system)
          /\ \A i \in DOMAIN messages :
               messages[i].role \in {"system", "user"} => i <= SeedLen)
  /\ [](~Seeded => modelCalls = 0)
  /\ [][Running => IsPrefix(messages, messages')]_vars

\* the second model call of a run is in flight, after a tool message
C14_Witness ==
  /\ pc = "chat"
  /\ modelCalls = 2
  /\ ToolAt # {}

\* ------------------------------------------------------------------- C15
\* invocations that have not settled
PendingInvocations == { j \in DOMAIN invoked : invoked[j].outcome = Pending }

RECURSIVE ToolIdsFrom(_)
\* the ids of the unbroken row of tool messages that starts at position j
ToolIdsFrom(j) ==
  IF j \in ToolAt THEN <<messages[j].tool_call_id>> \o ToolIdsFrom(j + 1)
  ELSE << >>
\* the tool messages that directly follow the assistant message at i
FollowedBy(i) == ToolIdsFrom(i + 1)

\* C15: at most one model call or one tool invocation is in flight; a
\* request is taken up only when every request taken up before it has its
\* tool message; and whenever a model call is in flight, every assistant
\* message with n requests is directly followed by min(n,
\* maxToolCallsPerTurn) tool messages that carry the ids of its first
\* requests in their order, whether the tool ran, threw or was not found.
C15_SequentialInOrder ==
  /\ Cardinality(PendingInvocations) <= 1
  /\ (PendingInvocations # {}) <=> (pc = "handler")
  /\ PendingInvocations # {} => PendingInvocations = {Len(invoked)}
  /\ pc = "chat" => modelCalls = Cardinality(AssistantAt) + 1
  /\ pc # "chat" /\ Seeded => modelCalls = Cardinality(AssistantAt)
                                + (IF result.error \in ModelCallErrors
                                   THEN 1 ELSE 0)
  /\ \A k \in 1..(Len(executed) - 1) : AnswersTo(executed[k]) # {}
  /\ pc = "chat" =>
       \A i \in ToolTurnsAt :
         FollowedBy(i) = Ids(Taken(messages[i].tool_calls))

\* a second model call is in flight after a turn in which three requests
\* came with a cap of two, one of them for an unknown tool and one invoked
C15_Witness ==
  /\ pc = "chat"
  /\ cfg.maxToolCallsPerTurn = 2
  /\ invoked # << >>
  /\ \E i \in ToolTurnsAt :
       /\ Len(messages[i].tool_calls) = 3
       /\ Len(FollowedBy(i)) = 2
       /\ \E j \in ToolAt : /\ messages[j].content.t = "string"
                            /\ Contains(messages[j].content.s, NotFoundMark)

\* ------------------------------------------------------------------- C16
\* C16: a model call that brings no assistant message (the response was
\* not ok, or its first choice has no message) ends the run as Failed with
\* the error of that call, and appends nothing and invokes nothing; a run
\* that failed so has one model call more than assistant messages, and the
\* next thing that happens on the Agent is a new run.
C16_ModelFailureFatal ==
  /\ [][(pc = "chat" /\ Len(messages') = Len(messages)) =>
          /\ pc' = "done"
          /\ result'.kind = "Failed"
          /\ result'.error \in ModelCallErrors
          /\ messages' = messages
          /\ invoked' = invoked /\ executed' = executed
          /\ modelCalls' = modelCalls /\ turn' = turn]_vars
  /\ [](pc = "done" /\ result.error \in ModelCallErrors =>
          /\ result.kind = "Failed"
          /\ modelCalls = Cardinality(AssistantAt) + 1
          /\ modelCalls = turn
          /\ PendingInvocations = {})
  /\ [][pc = "done" =>
          modelCalls' = 0 /\ invoked' = << >> /\ messages' = << >>]_vars

\* the second model call of a run brought no message, after a tool ran
C16_Witness ==
  /\ pc = "done"
  /\ result = Failed(<<"No message from model">>)
  /\ turn = 2
  /\ invoked # << >>

\* ------------------------------------------------------------------- C17
\* requests the for loop has taken up and is through with
Finished ==
  { r \in AllRequests :
      r.id \in Range(executed) /\ ~(pc = "handler" /\ tc.id = r.id) }
Unparsable(r) == r.arguments.s # Empty /\ r.arguments.s \notin ValidJSON
InvocationsOf(r) == { j \in DOMAIN invoked : invoked[j].id = r.id }
\* { _raw: raw }
RawSentinel(raw) == Obj(<<"{\"_raw\":\"">> \o raw \o <<"\"}">>)

\* the arguments a registered tool is invoked with: the sentinel for a
\* string that does not parse, {} for an empty string; once per request
InvokedWithSentinel ==
  \A r \in AllRequests :
    (r.id \in Range(executed) /\ r.name \in DOMAIN toolRegistry) =>
      /\ Cardinality(InvocationsOf(r)) = 1
      /\ \A j \in InvocationsOf(r) :
           /\ Unparsable(r) => invoked[j].args = RawSentinel(r.arguments.s)
           /\ r.arguments.s = Empty => invoked[j].args = Obj(<<"{}">>)

\* C17: a request whose arguments do not parse does not fail the run: a
\* registered tool is invoked once with the sentinel { _raw }, and the
\* request gets exactly one tool message with its id; empty arguments
\* give an empty object.
C17_UnparsableArgumentsContained ==
  /\ InvokedWithSentinel
  /\ \A r \in Finished :
       Unparsable(r) =>
         /\ Cardinality(AnswersTo(r.id)) = 1
         /\ ~(pc = "done" /\ result.kind = "Failed"
                /\ result.error \notin ModelCallErrors
                /\ executed[Len(executed)] = r.id)

\* ------------------------------------------------------------------- C18
\* the text of part k of an array content, as the claim has it and as it is
TextFieldOf(part) == IF part.t = "textobj" THEN part.s ELSE Empty
PartText(part) == IF part.t = "string" THEN part.s ELSE TextFieldOf(part)
RECURSIVE Concat(_)
Concat(pieces) ==
  IF pieces = << >> THEN Empty ELSE Head(pieces) \o Concat(Tail(pieces))
\* any value that is neither a string, nor an array, nor an object with a
\* text field: nothing for absent content, else its String() form
Stringified(c) ==
  IF c.t \in {"undefined", "null"} THEN Empty ELSE <<"[object Object]">>

\* C18 as claimed: the final text is the content when it is a string, the
\* concatenation of the text fields of the parts when it is an array, a
\* part without a text field giving "", the text field of a single object
\* that has one, and the stringified value otherwise.
C18_CoercionTextFieldsOnly ==
  (pc = "done" /\ result.kind = "Completed") =>
    \A i \in FinalAt :
      LET c == messages[i].content
      IN result.text =
           CASE c.t = "string"  -> c.s
             [] c.t = "array"   ->
                  Concat([k \in DOMAIN c.p |-> TextFieldOf(c.p[k])])
             [] c.t = "textobj" -> c.s
             [] OTHER           -> Stringified(c)

\* C18 as amended: as above, but a part of an array that is itself a
\* string gives that string.
C18_CoercionWithStringParts ==
  (pc = "done" /\ result.kind = "Completed") =>
    \A i \in FinalAt :
      LET c == messages[i].content
      IN result.text =
           CASE c.t = "string"  -> c.s
             [] c.t = "array"   ->
                  Concat([k \in DOMAIN c.p |-> PartText(c.p[k])])
             [] c.t = "textobj" -> c.s
             [] OTHER           -> Stringified(c)

\* a run completed with an array of a string, a part without text and a
\* part with text
C18_Witness ==
  /\ pc = "done"
  /\ result.kind = "Completed"
  /\ result.text = <<"Good", " day">>
  /\ \E i \in FinalAt : messages[i].content.t = "array"

\* ------------------------------------------------------------------- C19
\* the names the tool specs of the current registry carry
AdvertisedNames ==
  { openAIToolsSpec(toolRegistry)[n] : n \in DOMAIN toolRegistry }
\* the registered tools whose tool spec carries the name a
DerivedFrom(a) ==
  { n \in DOMAIN toolRegistry : openAIToolsSpec(toolRegistry)[n] = a }

\* C19: in the loop of a run, two registered tools never have the same
\* name in the tool specs, and an executed request for a name of the tool
\* specs invokes the tool whose spec carries that name: it gets no
\* not-found message and reaches no other tool.
C19_AdvertisedNamesCallable ==
  Seeded =>
    /\ \A n1, n2 \in DOMAIN toolRegistry :
         n1 # n2 => openAIToolsSpec(toolRegistry)[n1]
                      # openAIToolsSpec(toolRegistry)[n2]
    /\ \A r \in Finished :
         \A n \in DerivedFrom(r.name) :
           /\ InvocationsOf(r) # {}
           /\ \A j \in InvocationsOf(r) : invoked[j].name = n

\* What does hold: names of at most NameCap characters are advertised as
\* they are registered, and a request for such a name invokes that tool.
ShortNamesCallable ==
  Seeded =>
    \A n \in DOMAIN toolRegistry :
      slice(n, NameCap) = n =>
        /\ openAIToolsSpec(toolRegistry)[n] = n
        /\ \A r \in Finished :
             r.name = n => /\ InvocationsOf(r) # {}
                           /\ \A j \in InvocationsOf(r) : invoked[j].name = n

\* ------------------------------------------------------------------- C20
\* every tool message carries the id of a request the loop took up, and no
\* two tool messages carry the same id
ToolMessagesCorrelated ==
  /\ \A i \in ToolAt : messages[i].tool_call_id \in Range(executed)
  /\ \A i, j \in ToolAt :
       messages[i].tool_call_id = messages[j].tool_call_id => i = j

\* C20: every tool message of the transcript has a string as content and
\* the id of the request it answers, whether the tool was not found, threw
\* or returned, with or without a value.
C20_ToolMessagesWellFormed ==
  /\ ToolMessagesCorrelated
  /\ \A i \in ToolAt : messages[i].content.t = "string"

====
